---- MODULE Spec2Model ----
(***************************************************************************)
(* The FIFO trade ledger engine of the trade blotter page,                 *)
(* build_fifo_ledger in src/trades_dashboard/trade_blotter.py.             *)
(*                                                                         *)
(* One behaviour is one invocation of build_fifo_ledger(df).  The rows of  *)
(* df are produced one at a time by df.iterrows(); the variable df holds   *)
(* the rows the loop has read so far, and the row read next is drawn from  *)
(* the bounded set of rows when the loop asks for it.                      *)
(*                                                                         *)
(* Decimal values are integers here: every quantity and price of the       *)
(* bounded input is an integer-valued Decimal, on which Decimal +, -, *    *)
(* and comparison are exact.                                               *)
(*                                                                         *)
(* Around the engine: two invocations running side by side (SpecPair), and *)
(* the page script with its password gate and its load of the selected     *)
(* ticker's trades (SpecPage).                                             *)
(***************************************************************************)
EXTENDS Integers, Sequences, FiniteSets, TLC

\* ------------------------------------------------------------------ bounds
MaxTrades == 3
MaxQty == 3
MaxPrice == 2
\* Trades per run in the specifications with a wider state (SpecAny, SpecTwice).
MaxTradesWide == 2

\* ------------------------------------------------------- python primitives
\* Marks a local name that no assignment has bound yet.
Unbound == "unbound"

Min(a, b) == IF a <= b THEN a ELSE b

\* Variant: the sign is kept.
AbsKeepsSign(x) == x

Abs(x) == IF x < 0 THEN -x ELSE x

\* Variant: del lots[i:], the list cut at its i-th element.
RemoveFrom(s, i) == SubSeq(s, 1, i - 1)

\* list.pop(i) with a 1-based index: the list without its i-th element.
RemoveAt(s, i) == [k \in 1..(Len(s) - 1) |-> IF k < i THEN s[k] ELSE s[k + 1]]

\* float(d) of an integer-valued Decimal d: a binary float of the same value.
Float(d) == [type |-> "float", value |-> d]

\* Decimal a / b, kept as the exact quotient a/b.
Quotient(a, b) == [num |-> a, den |-> b]

\* ------------------------------------------------------------------- input
\* The quantity and price columns of a valid trade: non-zero signed
\* quantity, strictly positive price.
ValidQuantities == (-MaxQty..MaxQty) \ {0}

ValidPrices == 1..MaxPrice

\* What the columns can hold at all: the engine reads them without a check, so
\* a zero quantity, a zero or negative price and any date can reach it.
AnyQuantities == (-MaxQty)..MaxQty

AnyPrices == (-1)..MaxPrice

AnyDates == 1..MaxTradesWide

\* The trade rows the query of load_trades_for_ticker returns come sorted by
\* trade_date, trade_id: the n-th row carries the n-th date.
TradeRow(n, q, p) == [trade_date |-> n, quantity |-> q, price |-> p]

\* ------------------------------------------------------------------- state
VARIABLES
    df,                  \* rows of the input frame read so far by iterrows()
    pc,                  \* position in build_fifo_ledger
    open_long_lots,      \* list of lots, oldest first
    open_short_lots,
    running_position,
    realized_pnl_total,
    ledger_rows,
    qty, price, trade_notional, realized_pnl, side_label,   \* loop locals
    buy_qty, sell_qty, unrealized_pnl,
    summary,
    entry_long, entry_short,   \* history: both queues as the current trade found them
    matches,                   \* history: the matches of the current trade, in order
    returned,                  \* history: what earlier invocations on this frame returned
    other,                     \* the locals of a second invocation while it is not the one running
    session_state,             \* st.session_state of the browser session
    script,                    \* position of the page's script run
    rendered,                  \* the elements the latest script run has put on the page
    frame_rows                 \* number of rows of the frame the page has loaded

\* The names local to one invocation of build_fifo_ledger.
engine_vars == <<df, pc, open_long_lots, open_short_lots, running_position,
                 realized_pnl_total, ledger_rows, qty, price, trade_notional,
                 realized_pnl, side_label, buy_qty, sell_qty, unrealized_pnl,
                 summary, entry_long, entry_short, matches>>

\* The state of the page around the engine.
page_vars == <<session_state, script, rendered, frame_rows>>

vars == <<engine_vars, returned, other, page_vars>>

\* ------------------------------------------------------- pieces of the loop
\* A lot dict {"remaining_qty", "price"}; opened_by is history, the index of
\* the trade that appended the lot.
NewLot(rem, p, n) == [remaining_qty |-> rem, price |-> p, opened_by |-> n]

\* Variant: each branch tests its own queue instead of the opposite one.
SideLabelOwnQueue(q, longs, shorts) ==
    IF q > 0
    THEN IF longs # <<>> THEN "BUY (Cover Short)" ELSE "BUY (Open Long)"
    ELSE IF shorts # <<>> THEN "SELL (Close Long)" ELSE "SELL (Open Short)"

SideLabel(q, longs, shorts) ==
    IF q > 0
    THEN IF shorts # <<>> THEN "BUY (Cover Short)" ELSE "BUY (Open Long)"
    ELSE IF longs # <<>> THEN "SELL (Close Long)" ELSE "SELL (Open Short)"

\* Variant: the loop goes on only while the head lot fits in the quantity left.
MoreToMatchWholeLots(rem, lots) ==
    rem > 0 /\ lots # <<>> /\ lots[1].remaining_qty <= rem

\* The while conditions: quantity left to match and an opposite lot to take.
MoreToMatch(rem, lots) == rem > 0 /\ lots # <<>>

\* Variant: lot = lots[-1], the most recent lot.
MatchIndexLast(lots) == Len(lots)

\* lot = lots[0]
MatchIndex(lots) == 1

\* Variant: lots.pop(), which removes the last lot.
PopIndexLast(lots) == Len(lots)

\* lots.pop(0)
PopIndex(lots) == 1

\* Variant: the whole lot is matched, whatever quantity is left.
MatchedWholeLot(lot, rem) == lot.remaining_qty

Matched(lot, rem) == Min(lot.remaining_qty, rem)

\* Variant: a covered short is paid like a closed long.
ShortPnlLongSign(matched, lot, p) == matched * (p - lot.price)

ShortPnl(matched, lot, p) == matched * (lot.price - p)

\* Variant: matched * price - lot["price"], the parentheses lost.
LongPnlNoParentheses(matched, lot, p) == matched * p - lot.price

LongPnl(matched, lot, p) == matched * (p - lot.price)

\* Variant: realized_pnl = pnl.
AccumulateOverwrite(total, pnl) == pnl

\* realized_pnl += pnl
Accumulate(total, pnl) == total + pnl

\* Variant: if lot["remaining_qty"] < 0.
ExhaustedNegative(lot) == lot.remaining_qty < 0

Exhausted(lot) == lot.remaining_qty = 0

\* Variant: lot["price"] -= matched, the wrong key.
DecrementedPrice(lot, matched) == [lot EXCEPT !.price = @ - matched]

\* lot["remaining_qty"] -= matched: the only write to a lot after it is opened.
Decremented(lot, matched) == [lot EXCEPT !.remaining_qty = @ - matched]

\* One pass of the body of a matching loop over the opposite queue: the
\* queue after lot["remaining_qty"] -= matched and the conditional pop.
QueueAfterMatch(lots, matched) ==
    LET i == MatchIndex(lots)
        dec == [lots EXCEPT ![i] = Decremented(@, matched)]
    IN  IF Exhausted(dec[i]) THEN RemoveAt(dec, PopIndex(dec)) ELSE dec

\* Variant: if rest >= 0.
ShouldOpenNonNegative(rest) == rest >= 0

\* if rest > 0: lots.append({...})
ShouldOpen(rest) == rest > 0

\* Variant: the append is executed twice.
QueueAfterOpenTwice(lots, rest, p, n) ==
    IF ShouldOpen(rest)
    THEN Append(Append(lots, NewLot(rest, p, n)), NewLot(rest, p, n))
    ELSE lots

\* Variant: lots.insert(0, {...}), the new lot in front.
QueueAfterOpenInFront(lots, rest, p, n) ==
    IF ShouldOpen(rest) THEN <<NewLot(rest, p, n)>> \o lots ELSE lots

QueueAfterOpen(lots, rest, p, n) ==
    IF ShouldOpen(rest) THEN Append(lots, NewLot(rest, p, n)) ELSE lots

\* Variant: running_position += abs(qty).
UpdatePositionAbs(pos, q) == pos + Abs(q)

\* running_position += qty
UpdatePosition(pos, q) == pos + q

\* Variant: remaining_qty * price, the cost of the lot not taken off.
RECURSIVE MarkLongFullValue(_, _)
MarkLongFullValue(lots, p) ==
    IF lots = <<>> THEN 0
    ELSE Head(lots).remaining_qty * p + MarkLongFullValue(Tail(lots), p)

RECURSIVE MarkLong(_, _)
MarkLong(lots, p) ==
    IF lots = <<>> THEN 0
    ELSE Head(lots).remaining_qty * (p - Head(lots).price) + MarkLong(Tail(lots), p)

RECURSIVE MarkShort(_, _)
MarkShort(lots, p) ==
    IF lots = <<>> THEN 0
    ELSE Head(lots).remaining_qty * (Head(lots).price - p) + MarkShort(Tail(lots), p)

\* Variant: short lots are marked with the sign of long lots.
UnrealizedPnlOneSign(longs, shorts, p) == MarkLong(longs, p) + MarkLong(shorts, p)

UnrealizedPnl(longs, shorts, p) == MarkLong(longs, p) + MarkShort(shorts, p)

\* Variant: the prices are summed without the quantities.
RECURSIVE RemainingCostUnweighted(_)
RemainingCostUnweighted(lots) ==
    IF lots = <<>> THEN 0
    ELSE Head(lots).price + RemainingCostUnweighted(Tail(lots))

RECURSIVE RemainingCost(_)
RemainingCost(lots) ==
    IF lots = <<>> THEN 0
    ELSE Head(lots).remaining_qty * Head(lots).price + RemainingCost(Tail(lots))

AvgCost(longs, pos) ==
    IF pos > 0 THEN Quotient(RemainingCost(longs), pos) ELSE Quotient(0, 1)

LedgerRow(row, label, q, p, notional, pos, avg, realized, total, unrealized) ==
    [Trade_Date           |-> row.trade_date,
     Side                 |-> label,
     Quantity             |-> Float(q),
     Price                |-> Float(p),
     Trade_Notional       |-> Float(notional),
     Gross_Notional       |-> Float(Abs(pos) * p),
     Running_Position     |-> Float(pos),
     Avg_Cost_Basis       |-> Float(avg),
     Realized_PnL_Trade   |-> Float(realized),
     Total_Realized_PnL   |-> Float(total),
     Total_Unrealized_PnL |-> Float(unrealized)]

\* Variant: realized_pnl_total += abs(realized_pnl).
AddToTotalAbs(total, realized) == total + Abs(realized)

\* realized_pnl_total += realized_pnl
AddToTotal(total, realized) == total + realized

\* Variant: ledger_rows.insert(0, {...}), newest row first.
AppendRowInFront(rows, row) == <<row>> \o rows

\* ledger_rows.append({...})
AppendRow(rows, row) == Append(rows, row)

\* Variant: the two lot counts are taken from the wrong queues.
SummaryOfSwappedCounts(pos, total, unrealized, longs, shorts) ==
    [Final_Position       |-> Float(pos),
     Total_Realized_PnL   |-> Float(total),
     Final_Unrealized_PnL |-> Float(unrealized),
     Open_Long_Lots       |-> Len(shorts),
     Open_Short_Lots      |-> Len(longs)]

\* The summary dict: five entries, none for the total P&L.
SummaryOf(pos, total, unrealized, longs, shorts) ==
    [Final_Position       |-> Float(pos),
     Total_Realized_PnL   |-> Float(total),
     Final_Unrealized_PnL |-> Float(unrealized),
     Open_Long_Lots       |-> Len(longs),
     Open_Short_Lots      |-> Len(shorts)]

\* Variant: the list lives outside the function and keeps its content from
\* one call to the next.
KeptList(old) == old

\* open_long_lots = [] / open_short_lots = []: a new empty list per call.
FreshList(old) == <<>>

\* ----------------------------------------------------------------- actions
InitEngine ==
    /\ df = <<>>
    /\ pc = "for"
    /\ open_long_lots = <<>>
    /\ open_short_lots = <<>>
    /\ running_position = 0
    /\ realized_pnl_total = 0
    /\ ledger_rows = <<>>
    /\ qty = Unbound /\ price = Unbound /\ trade_notional = Unbound
    /\ realized_pnl = Unbound /\ side_label = Unbound
    /\ buy_qty = Unbound /\ sell_qty = Unbound /\ unrealized_pnl = Unbound
    /\ summary = Unbound
    /\ entry_long = <<>> /\ entry_short = <<>> /\ matches = <<>>

\* No page around the engine: the function is called directly.
NoPage ==
    /\ session_state = <<>>
    /\ script = "none"
    /\ rendered = {}
    /\ frame_rows = 0

Init == InitEngine /\ returned = <<>> /\ other = <<>> /\ NoPage

\* for _, row in df.iterrows(): the loop takes the next row, binds qty, price,
\* trade_notional, realized_pnl, picks the branch and sets the side label.
ReadRowDated(d, q, p) ==
    /\ pc = "for"
    /\ Len(df) < MaxTrades
    /\ df' = Append(df, TradeRow(d, q, p))
    /\ qty' = q
    /\ price' = p
    /\ trade_notional' = q * p
    /\ realized_pnl' = 0
    /\ side_label' = SideLabel(q, open_long_lots, open_short_lots)
    /\ buy_qty' = IF q > 0 THEN q ELSE buy_qty
    /\ sell_qty' = IF q > 0 THEN sell_qty ELSE Abs(q)
    /\ entry_long' = open_long_lots
    /\ entry_short' = open_short_lots
    /\ matches' = <<>>
    /\ pc' = "match"
    /\ UNCHANGED <<open_long_lots, open_short_lots, running_position,
                   realized_pnl_total, ledger_rows, unrealized_pnl, summary>>
    /\ UNCHANGED <<returned, other, page_vars>>

\* A row of a frame sorted by date: the n-th row carries the n-th date.
ReadRow(q, p) == ReadRowDated(Len(df) + 1, q, p)

NextRow == \E q \in ValidQuantities, p \in ValidPrices : ReadRow(q, p)

\* A row of any frame a caller can pass: nothing in build_fifo_ledger looks at
\* the order of the dates or at the range of quantity and price.
NextAnyRow ==
    /\ Len(df) < MaxTradesWide
    /\ \E d \in AnyDates, q \in AnyQuantities, p \in AnyPrices : ReadRowDated(d, q, p)

\* One iteration of "while buy_qty > 0 and open_short_lots".
MatchShort ==
    /\ pc = "match"
    /\ qty > 0
    /\ MoreToMatch(buy_qty, open_short_lots)
    /\ LET lot == open_short_lots[MatchIndex(open_short_lots)]
           matched == Matched(lot, buy_qty)
       IN  /\ realized_pnl' = Accumulate(realized_pnl, ShortPnl(matched, lot, price))
           /\ buy_qty' = buy_qty - matched
           /\ open_short_lots' = QueueAfterMatch(open_short_lots, matched)
           /\ matches' = Append(matches, [lot |-> lot, matched |-> matched])
    /\ UNCHANGED <<df, pc, open_long_lots, running_position, realized_pnl_total,
                   ledger_rows, qty, price, trade_notional, side_label, sell_qty,
                   unrealized_pnl, summary, entry_long, entry_short>>
    /\ UNCHANGED <<returned, other, page_vars>>

\* One iteration of "while sell_qty > 0 and open_long_lots".
MatchLong ==
    /\ pc = "match"
    /\ ~(qty > 0)
    /\ MoreToMatch(sell_qty, open_long_lots)
    /\ LET lot == open_long_lots[MatchIndex(open_long_lots)]
           matched == Matched(lot, sell_qty)
       IN  /\ realized_pnl' = Accumulate(realized_pnl, LongPnl(matched, lot, price))
           /\ sell_qty' = sell_qty - matched
           /\ open_long_lots' = QueueAfterMatch(open_long_lots, matched)
           /\ matches' = Append(matches, [lot |-> lot, matched |-> matched])
    /\ UNCHANGED <<df, pc, open_short_lots, running_position, realized_pnl_total,
                   ledger_rows, qty, price, trade_notional, side_label, buy_qty,
                   unrealized_pnl, summary, entry_long, entry_short>>
    /\ UNCHANGED <<returned, other, page_vars>>

\* The rest of the loop body once the branch's while loop is left: the
\* accumulators, the marks and the ledger row, given the queues and the
\* position the branch leaves.
EmitRow(longs, shorts, pos) ==
    LET total == AddToTotal(realized_pnl_total, realized_pnl)
        unrealized == UnrealizedPnl(longs, shorts, price)
    IN  /\ realized_pnl_total' = total
        /\ unrealized_pnl' = unrealized
        /\ ledger_rows' = AppendRow(ledger_rows,
               LedgerRow(df[Len(df)], side_label, qty, price, trade_notional, pos,
                         AvgCost(longs, pos), realized_pnl, total, unrealized))

\* Buy branch after its loop: open the new long lot, update the position,
\* then the rest of the body.
FinishBuy ==
    /\ pc = "match"
    /\ qty > 0
    /\ ~MoreToMatch(buy_qty, open_short_lots)
    /\ open_long_lots' = QueueAfterOpen(open_long_lots, buy_qty, price, Len(df))
    /\ running_position' = UpdatePosition(running_position, qty)
    /\ EmitRow(open_long_lots', open_short_lots, running_position')
    /\ pc' = "for"
    /\ UNCHANGED <<df, open_short_lots, qty, price, trade_notional, realized_pnl,
                   side_label, buy_qty, sell_qty, summary, entry_long, entry_short,
                   matches>>
    /\ UNCHANGED <<returned, other, page_vars>>

\* Sell branch after its loop.
FinishSell ==
    /\ pc = "match"
    /\ ~(qty > 0)
    /\ ~MoreToMatch(sell_qty, open_long_lots)
    /\ open_short_lots' = QueueAfterOpen(open_short_lots, sell_qty, price, Len(df))
    /\ running_position' = UpdatePosition(running_position, qty)
    /\ EmitRow(open_long_lots, open_short_lots', running_position')
    /\ pc' = "for"
    /\ UNCHANGED <<df, open_long_lots, qty, price, trade_notional, realized_pnl,
                   side_label, buy_qty, sell_qty, summary, entry_long, entry_short,
                   matches>>
    /\ UNCHANGED <<returned, other, page_vars>>

\* iterrows() is exhausted: the summary is built and the function returns.
\* The page calls build_fifo_ledger only on a frame with at least one row.
Summary ==
    /\ pc = "for"
    /\ Len(df) >= 1
    /\ summary' = SummaryOf(running_position, realized_pnl_total, unrealized_pnl,
                            open_long_lots, open_short_lots)
    /\ pc' = "done"
    /\ UNCHANGED <<df, open_long_lots, open_short_lots, running_position,
                   realized_pnl_total, ledger_rows, qty, price, trade_notional,
                   realized_pnl, side_label, buy_qty, sell_qty, unrealized_pnl,
                   entry_long, entry_short, matches>>
    /\ UNCHANGED <<returned, other, page_vars>>

Next ==
    \/ NextRow
    \/ MatchShort
    \/ FinishBuy
    \/ MatchLong
    \/ FinishSell
    \/ Summary

Spec == Init /\ [][Next]_vars

\* A second invocation on the frame the first one was given: the first call's
\* result is kept aside, every name of the function body starts afresh.
InvokeAgain ==
    /\ pc = "done"
    /\ returned = <<>>
    /\ returned' = <<[df |-> df, ledger |-> ledger_rows, summary |-> summary]>>
    /\ df' = <<>>
    /\ pc' = "for"
    /\ open_long_lots' = FreshList(open_long_lots)
    /\ open_short_lots' = FreshList(open_short_lots)
    /\ running_position' = 0
    /\ realized_pnl_total' = 0
    /\ ledger_rows' = <<>>
    /\ qty' = Unbound /\ price' = Unbound /\ trade_notional' = Unbound
    /\ realized_pnl' = Unbound /\ side_label' = Unbound
    /\ buy_qty' = Unbound /\ sell_qty' = Unbound /\ unrealized_pnl' = Unbound
    /\ summary' = Unbound
    /\ entry_long' = <<>> /\ entry_short' = <<>> /\ matches' = <<>>
    /\ UNCHANGED <<other, page_vars>>

\* The first invocation reads a frame of valid rows.
FirstRow == returned = <<>> /\ Len(df) < MaxTradesWide /\ NextRow

FirstSummary == returned = <<>> /\ Summary

\* The second invocation reads the same rows again, in the same order, and
\* reaches the summary when they are exhausted.
ReplayRow ==
    /\ returned # <<>>
    /\ Len(df) < Len(returned[1].df)
    /\ LET row == returned[1].df[Len(df) + 1]
       IN  ReadRowDated(row.trade_date, row.quantity, row.price)

ReplaySummary == returned # <<>> /\ Len(df) = Len(returned[1].df) /\ Summary

NextTwice ==
    \/ FirstRow
    \/ MatchShort
    \/ FinishBuy
    \/ MatchLong
    \/ FinishSell
    \/ FirstSummary
    \/ InvokeAgain
    \/ ReplayRow
    \/ ReplaySummary

SpecTwice == Init /\ [][NextTwice]_vars

\* The engine on any frame, valid or not.
NextAny ==
    \/ NextAnyRow
    \/ MatchShort
    \/ FinishBuy
    \/ MatchLong
    \/ FinishSell
    \/ Summary

SpecAny == Init /\ [][NextAny]_vars

\* ------------------------------------------- two invocations side by side
\* Two runs of build_fifo_ledger, one per instrument, each on a thread of its
\* own: at any step either may be the one that runs.  The names of the running
\* invocation are the engine variables, those of the waiting one are in other.
Frame ==
    [df |-> df, pc |-> pc, open_long_lots |-> open_long_lots,
     open_short_lots |-> open_short_lots, running_position |-> running_position,
     realized_pnl_total |-> realized_pnl_total, ledger_rows |-> ledger_rows,
     qty |-> qty, price |-> price, trade_notional |-> trade_notional,
     realized_pnl |-> realized_pnl, side_label |-> side_label,
     buy_qty |-> buy_qty, sell_qty |-> sell_qty,
     unrealized_pnl |-> unrealized_pnl, summary |-> summary,
     entry_long |-> entry_long, entry_short |-> entry_short, matches |-> matches]

\* Variant: the list is one module-level object that every invocation uses.
SharedList(mine, running) == running

\* The lists are created inside the function: an invocation that resumes finds
\* its own list, whatever the other invocation did meanwhile.
OwnList(mine, running) == mine

\* The scheduler takes the running invocation off and resumes the other.
Switch ==
    /\ other # <<>>
    /\ other' = <<Frame>>
    /\ df' = other[1].df
    /\ pc' = other[1].pc
    /\ open_long_lots' = OwnList(other[1].open_long_lots, open_long_lots)
    /\ open_short_lots' = OwnList(other[1].open_short_lots, open_short_lots)
    /\ running_position' = other[1].running_position
    /\ realized_pnl_total' = other[1].realized_pnl_total
    /\ ledger_rows' = other[1].ledger_rows
    /\ qty' = other[1].qty
    /\ price' = other[1].price
    /\ trade_notional' = other[1].trade_notional
    /\ realized_pnl' = other[1].realized_pnl
    /\ side_label' = other[1].side_label
    /\ buy_qty' = other[1].buy_qty
    /\ sell_qty' = other[1].sell_qty
    /\ unrealized_pnl' = other[1].unrealized_pnl
    /\ summary' = other[1].summary
    /\ entry_long' = other[1].entry_long
    /\ entry_short' = other[1].entry_short
    /\ matches' = other[1].matches
    /\ UNCHANGED <<returned, page_vars>>

\* Both invocations have been called and neither has run a step.
InitPair ==
    /\ InitEngine
    /\ other = <<Frame>>
    /\ returned = <<>>
    /\ NoPage

\* The frames of the pair hold trades of one unit each, at any valid price.
UnitQuantities == {q \in ValidQuantities : Abs(q) = 1}

PairRow ==
    /\ Len(df) < MaxTradesWide
    /\ \E q \in UnitQuantities, p \in ValidPrices : ReadRow(q, p)

NextPair ==
    \/ PairRow
    \/ MatchShort
    \/ FinishBuy
    \/ MatchLong
    \/ FinishSell
    \/ Summary
    \/ Switch

SpecPair == InitPair /\ [][NextPair]_vars

\* ---------------------------------------------------- the trade blotter page
\* One browser session of the page.  Streamlit runs the script from its first
\* line on every interaction, in a fresh namespace; st.session_state lasts for
\* the session.  A callback runs before the script run its click starts.

\* st.secrets["auth"]["password"] and what a visitor may type.
Secret == "secret"

Passwords == {Secret, "wrong"}

\* Variant: the comparison is dropped.
PasswordAlwaysAccepted(typed, secret) == TRUE

\* st.session_state["password"] == st.secrets["auth"]["password"]
PasswordMatches(typed, secret) == typed = secret

\* Variant: the frame is never taken for empty.
FrameIsEmptyNever(n) == FALSE

\* df.empty, for a frame of n rows
FrameIsEmpty(n) == n = 0

Authenticated ==
    "authenticated" \in DOMAIN session_state /\ session_state["authenticated"]

\* The loop body assigns unrealized_pnl in every iteration: the name is bound
\* once a row has been read and processed.
LoopBodyRan == df # <<>>

\* The names of build_fifo_ledger as a call starts (at "for") or while no call
\* is under way in the script run (at "idle").
EngineReset(at) ==
    /\ df' = <<>>
    /\ pc' = at
    /\ open_long_lots' = <<>>
    /\ open_short_lots' = <<>>
    /\ running_position' = 0
    /\ realized_pnl_total' = 0
    /\ ledger_rows' = <<>>
    /\ qty' = Unbound /\ price' = Unbound /\ trade_notional' = Unbound
    /\ realized_pnl' = Unbound /\ side_label' = Unbound
    /\ buy_qty' = Unbound /\ sell_qty' = Unbound /\ unrealized_pnl' = Unbound
    /\ summary' = Unbound
    /\ entry_long' = <<>> /\ entry_short' = <<>> /\ matches' = <<>>

\* A session opens: nothing in session_state, the first script run starts.
InitPage ==
    /\ df = <<>>
    /\ pc = "idle"
    /\ open_long_lots = <<>>
    /\ open_short_lots = <<>>
    /\ running_position = 0
    /\ realized_pnl_total = 0
    /\ ledger_rows = <<>>
    /\ qty = Unbound /\ price = Unbound /\ trade_notional = Unbound
    /\ realized_pnl = Unbound /\ side_label = Unbound
    /\ buy_qty = Unbound /\ sell_qty = Unbound /\ unrealized_pnl = Unbound
    /\ summary = Unbound
    /\ entry_long = <<>> /\ entry_short = <<>> /\ matches = <<>>
    /\ returned = <<>>
    /\ other = <<>>
    /\ session_state = <<>>
    /\ script = "run"
    /\ rendered = {}
    /\ frame_rows = 0

\* st.text_input(..., key="password"): the key holds "" until something is typed.
WithPasswordInput(state) ==
    IF "password" \in DOMAIN state THEN state ELSE ("password" :> "") @@ state

\* check_password, first branch: no "authenticated" key yet.  The login inputs
\* are rendered, it returns False and the script stops.
GateFirstVisit ==
    /\ script = "run"
    /\ "authenticated" \notin DOMAIN session_state
    /\ session_state' = WithPasswordInput(session_state)
    /\ rendered' = {"password", "Login"}
    /\ script' = "stopped"
    /\ UNCHANGED <<engine_vars, returned, other, frame_rows>>

\* Second branch: the key is there and False.
GateDenied ==
    /\ script = "run"
    /\ "authenticated" \in DOMAIN session_state
    /\ ~session_state["authenticated"]
    /\ session_state' = WithPasswordInput(session_state)
    /\ rendered' = {"password", "Login", "Incorrect password"}
    /\ script' = "stopped"
    /\ UNCHANGED <<engine_vars, returned, other, frame_rows>>

\* Third branch: it returns True without rendering the login inputs, and the
\* script goes on to the page body.
GatePassed ==
    /\ script = "run"
    /\ Authenticated
    /\ rendered' = {}
    /\ script' = "body"
    /\ UNCHANGED <<engine_vars, returned, other, session_state, frame_rows>>

\* The visitor types into the password input, which starts a script run.
TypePassword ==
    /\ script = "stopped"
    /\ "password" \in rendered
    /\ \E typed \in Passwords :
          session_state' = [session_state EXCEPT !["password"] = typed]
    /\ script' = "run"
    /\ EngineReset("idle")
    /\ UNCHANGED <<returned, other, rendered, frame_rows>>

\* The visitor clicks Login: password_entered runs, then the script.
ClickLogin ==
    /\ script = "stopped"
    /\ "Login" \in rendered
    /\ session_state' =
           ("authenticated" :> PasswordMatches(session_state["password"], Secret))
               @@ session_state
    /\ script' = "run"
    /\ EngineReset("idle")
    /\ UNCHANGED <<returned, other, rendered, frame_rows>>

\* get_all_tickers returns no ticker: the selectbox yields None and the body
\* is skipped.
NoTicker ==
    /\ script = "body"
    /\ rendered' = {"Select Ticker"}
    /\ script' = "end"
    /\ UNCHANGED <<engine_vars, returned, other, session_state, frame_rows>>

\* A ticker is selected and load_trades_for_ticker returns its frame.
LoadTrades ==
    /\ script = "body"
    /\ \E n \in 0..MaxTradesWide : frame_rows' = n
    /\ rendered' = {"Select Ticker"}
    /\ script' = "loaded"
    /\ UNCHANGED <<engine_vars, returned, other, session_state>>

\* if df.empty: st.warning(...)
ShowWarning ==
    /\ script = "loaded"
    /\ FrameIsEmpty(frame_rows)
    /\ rendered' = rendered \cup {"No trades found"}
    /\ script' = "end"
    /\ UNCHANGED <<engine_vars, returned, other, session_state, frame_rows>>

\* else: build_fifo_ledger(df) is called.
CallBuild ==
    /\ script = "loaded"
    /\ ~FrameIsEmpty(frame_rows)
    /\ EngineReset("for")
    /\ script' = "ledger"
    /\ UNCHANGED <<returned, other, session_state, rendered, frame_rows>>

\* The loop takes the next row of the loaded frame.
PageRow ==
    /\ script = "ledger"
    /\ Len(df) < frame_rows
    /\ NextRow

\* The loaded frame is exhausted: the summary dict is built from the names as
\* they stand; reading a name that no iteration has bound raises
\* UnboundLocalError.
PageSummary ==
    /\ script = "ledger"
    /\ pc = "for"
    /\ Len(df) = frame_rows
    /\ IF LoopBodyRan
       THEN /\ summary' = SummaryOf(running_position, realized_pnl_total,
                                    unrealized_pnl, open_long_lots, open_short_lots)
            /\ pc' = "done"
       ELSE /\ summary' = summary
            /\ pc' = "UnboundLocalError"
    /\ UNCHANGED <<df, open_long_lots, open_short_lots, running_position,
                   realized_pnl_total, ledger_rows, qty, price, trade_notional,
                   realized_pnl, side_label, buy_qty, sell_qty, unrealized_pnl,
                   entry_long, entry_short, matches>>
    /\ UNCHANGED <<returned, other, page_vars>>

\* The call has returned: the ledger and the summary are shown (or the
\* exception is), and the script run ends.
ShowLedger ==
    /\ script = "ledger"
    /\ pc \in {"done", "UnboundLocalError"}
    /\ rendered' = rendered \cup (IF pc = "done" THEN {"Trade Ledger"} ELSE {"Traceback"})
    /\ script' = "end"
    /\ UNCHANGED <<engine_vars, returned, other, session_state, frame_rows>>

\* The visitor picks a ticker in the selectbox, which starts a script run.
SelectTicker ==
    /\ script = "end"
    /\ "Select Ticker" \in rendered
    /\ script' = "run"
    /\ EngineReset("idle")
    /\ UNCHANGED <<returned, other, session_state, rendered, frame_rows>>

NextPage ==
    \/ GateFirstVisit
    \/ GateDenied
    \/ GatePassed
    \/ TypePassword
    \/ ClickLogin
    \/ NoTicker
    \/ LoadTrades
    \/ ShowWarning
    \/ CallBuild
    \/ PageRow
    \/ MatchShort
    \/ FinishBuy
    \/ MatchLong
    \/ FinishSell
    \/ PageSummary
    \/ ShowLedger
    \/ SelectTicker

SpecPage == InitPage /\ [][NextPage]_vars

\* ------------------------------------------- the engine as a function of df
\* A matching loop run to its end: what is left of the trade's quantity and of
\* the opposite queue, and the realized P&L.
RECURSIVE MatchAll(_, _, _, _, _)
MatchAll(rem, lots, p, buying, pnl) ==
    IF MoreToMatch(rem, lots)
    THEN LET lot == lots[MatchIndex(lots)]
             matched == Matched(lot, rem)
         IN  MatchAll(rem - matched, QueueAfterMatch(lots, matched), p, buying,
                      Accumulate(pnl, IF buying THEN ShortPnl(matched, lot, p)
                                                ELSE LongPnl(matched, lot, p)))
    ELSE [rest |-> rem, lots |-> lots, realized |-> pnl]

\* The state a run that starts alone is in before its first trade.
AloneStart ==
    [longs |-> <<>>, shorts |-> <<>>, pos |-> 0, total |-> 0, unrealized |-> 0,
     ledger |-> <<>>]

\* One iteration of the for loop on the n-th row.
AloneAfterTrade(s, row, n) ==
    LET q == row.quantity
        p == row.price
        buying == q > 0
        label == SideLabel(q, s.longs, s.shorts)
        m == MatchAll(Abs(q), IF buying THEN s.shorts ELSE s.longs, p, buying, 0)
        longs == IF buying THEN QueueAfterOpen(s.longs, m.rest, p, n) ELSE m.lots
        shorts == IF buying THEN m.lots ELSE QueueAfterOpen(s.shorts, m.rest, p, n)
        pos == UpdatePosition(s.pos, q)
        total == AddToTotal(s.total, m.realized)
        unrealized == UnrealizedPnl(longs, shorts, p)
    IN  [longs |-> longs, shorts |-> shorts, pos |-> pos, total |-> total,
         unrealized |-> unrealized,
         ledger |-> AppendRow(s.ledger,
                        LedgerRow(row, label, q, p, q * p, pos, AvgCost(longs, pos),
                                  m.realized, total, unrealized))]

\* The state after the first k rows of a frame, in a run of its own.
RECURSIVE AloneAfter(_, _)
AloneAfter(rows, k) ==
    IF k = 0 THEN AloneStart ELSE AloneAfterTrade(AloneAfter(rows, k - 1), rows[k], k)

LedgerAlone(rows) == AloneAfter(rows, Len(rows)).ledger

SummaryAlone(rows) ==
    LET s == AloneAfter(rows, Len(rows))
    IN  SummaryOf(s.pos, s.total, s.unrealized, s.longs, s.shorts)

\* ------------------------------------------------- reference definitions
\* The sum Term(1) + ... + Term(n).
RECURSIVE SumTo(_, _)
SumTo(Term(_), n) == IF n <= 0 THEN 0 ELSE Term(n) + SumTo(Term, n - 1)

\* The sum of the signed quantities of the first k trades read.
SumQty(k) == SumTo(LAMBDA i : df[i].quantity, k)

\* The total quantity still open in a queue.
TotalRemaining(lots) == SumTo(LAMBDA i : lots[i].remaining_qty, Len(lots))

\* The last trade read has been processed to the end of the loop body.
Processed == pc \in {"for", "done"} /\ df # <<>>

\* The last trade read is being, or has been, processed.
Entered == pc \in {"match", "for", "done"} /\ df # <<>>

\* The last trade read is a buy (qty is bound once a row has been read).
IsBuy == df # <<>> /\ qty > 0

\* The queue a trade matches against and the one it appends to, as the trade
\* found them and as they are now.
EntryOpposite == IF IsBuy THEN entry_short ELSE entry_long

EntryOwn == IF IsBuy THEN entry_long ELSE entry_short

Opposite == IF IsBuy THEN open_short_lots ELSE open_long_lots

Own == IF IsBuy THEN open_long_lots ELSE open_short_lots

LastRow == ledger_rows[Len(ledger_rows)]

\* ------------------------------------------------------------------ claims

\* C1 (conservation): the running position recorded in the ledger row of the
\* k-th trade equals the sum of the signed quantities of trades 1..k, for
\* every k.
C1_Conservation ==
    \A k \in 1..Len(ledger_rows) :
        ledger_rows[k].Running_Position.value = SumQty(k)

C1_Witness ==
    /\ pc = "for"
    /\ Len(ledger_rows) >= 3
    /\ \E i, j \in 1..Len(df) : df[i].quantity > 0 /\ df[j].quantity < 0
    /\ LastRow.Running_Position.value # 0

\* C2: after every processed trade (and before the first), running_position
\* equals the remaining quantity of the open long lots minus that of the
\* open short lots.
C2_PositionMatchesLots ==
    pc \in {"for", "done"} =>
        running_position =
            TotalRemaining(open_long_lots) - TotalRemaining(open_short_lots)

C2_Witness ==
    /\ pc = "for"
    /\ matches # <<>>
    /\ Len(open_short_lots) >= 1
    /\ open_short_lots[1].remaining_qty < Abs(df[open_short_lots[1].opened_by].quantity)
    /\ running_position < 0

\* C3 (mutual exclusivity): the two queues are never both non-empty.
C3_MutualExclusivity ==
    ~(open_long_lots # <<>> /\ open_short_lots # <<>>)

C3_Witness ==
    /\ Processed
    /\ IsBuy
    /\ entry_short # <<>>
    /\ open_long_lots # <<>>
    /\ open_short_lots = <<>>

\* C4 (FIFO order): every match of a closing trade takes the oldest lot still
\* open at that moment, the one opened by the earliest trade among those
\* remaining, at the price of that trade; after buys only, the first lot a
\* sell consumes has the price of the first buy.
OpenedBy(lots) == {lots[i].opened_by : i \in 1..Len(lots)}

\* The lots of the entry queue that the matches before the k-th used up.
UsedUpBefore(k) ==
    {matches[j].lot.opened_by : j \in {i \in 1..(k - 1) :
                                  matches[i].matched = matches[i].lot.remaining_qty}}

StillOpenAt(k) == OpenedBy(EntryOpposite) \ UsedUpBefore(k)

C4_FifoOrder ==
    Entered =>
        /\ \A k \in 1..Len(matches) :
              /\ matches[k].lot.opened_by \in StillOpenAt(k)
              /\ \A o \in StillOpenAt(k) : matches[k].lot.opened_by <= o
              /\ matches[k].lot.price = df[matches[k].lot.opened_by].price
        /\ (/\ ~IsBuy
            /\ matches # <<>>
            /\ \A i \in 1..(Len(df) - 1) : df[i].quantity > 0)
           => matches[1].lot.price = df[1].price

\* A partial sell after two buys whose earliest lot is neither the cheapest
\* nor the most recent.
C4_Witness ==
    /\ Processed
    /\ ~IsBuy
    /\ Len(entry_long) = 2
    /\ entry_long[1].price > entry_long[2].price
    /\ Len(matches) = 1
    /\ matches[1].lot.price = df[1].price
    /\ open_long_lots # <<>>

\* C5 (no negative lots): in every state, between trades and at every match
\* step, each lot in either queue has remaining_qty > 0, so a lot that reaches
\* zero leaves its queue in the step that empties it.
C5_LotsPositive ==
    /\ \A i \in 1..Len(open_long_lots) : open_long_lots[i].remaining_qty > 0
    /\ \A i \in 1..Len(open_short_lots) : open_short_lots[i].remaining_qty > 0

\* In the middle of a trade, right after a match that used a lot up.
C5_Witness ==
    /\ pc = "match"
    /\ matches # <<>>
    /\ matches[Len(matches)].matched = matches[Len(matches)].lot.remaining_qty
    /\ Len(Opposite) = Len(EntryOpposite) - Len(matches)
    /\ Opposite # <<>>

\* C6: the realized P&L of a trade is the sum over the matches made for that
\* trade of matched * (lot price - trade price) for a buy, matched * (trade
\* price - lot price) for a sell, each matched quantity being the minimum of
\* the lot's remaining quantity and the trade quantity still unmatched; it is
\* 0 for a trade without a match.
MatchedBefore(k) == SumTo(LAMBDA j : matches[j].matched, k - 1)

MatchPnl(m) ==
    IF IsBuy THEN m.matched * (m.lot.price - price)
             ELSE m.matched * (price - m.lot.price)

C6_RealizedPnl ==
    Entered =>
        /\ realized_pnl = SumTo(LAMBDA k : MatchPnl(matches[k]), Len(matches))
        /\ \A k \in 1..Len(matches) :
              matches[k].matched =
                  Min(matches[k].lot.remaining_qty, Abs(qty) - MatchedBefore(k))
        /\ matches = <<>> => realized_pnl = 0
        /\ Processed => LastRow.Realized_PnL_Trade.value = realized_pnl

C6_Witness ==
    /\ Processed
    /\ IsBuy
    /\ Len(matches) >= 2
    /\ LastRow.Realized_PnL_Trade.value < 0

\* C7 (zero-sum matching): a closing trade whose absolute quantity equals the
\* total remaining quantity of the opposite queue leaves both queues empty,
\* opens no lot, and its row has running position 0 and unrealized P&L 0.
C7_ZeroSum ==
    (Processed /\ EntryOpposite # <<>>
               /\ Abs(qty) = TotalRemaining(EntryOpposite)) =>
        /\ Opposite = <<>>
        /\ Own = EntryOwn
        /\ open_long_lots = <<>> /\ open_short_lots = <<>>
        /\ running_position = 0
        /\ unrealized_pnl = 0
        /\ LastRow.Running_Position.value = 0
        /\ LastRow.Total_Unrealized_PnL.value = 0

C7_Witness ==
    /\ Processed
    /\ Len(EntryOpposite) >= 2
    /\ Abs(qty) = TotalRemaining(EntryOpposite)
    /\ LastRow.Running_Position.value = 0

\* C8 (position flip): a trade whose absolute quantity exceeds the total
\* remaining quantity of the opposite queue consumes that whole queue,
\* realizes P&L on every lot of it, and appends exactly one lot to its own
\* queue with the unmatched remainder at the trade's price, in one ledger row.
AllOfQueuePnl(lots) ==
    SumTo(LAMBDA i : IF IsBuy THEN lots[i].remaining_qty * (lots[i].price - price)
                                ELSE lots[i].remaining_qty * (price - lots[i].price),
          Len(lots))

C8_Flip ==
    (Processed /\ Abs(qty) > TotalRemaining(EntryOpposite)) =>
        /\ Opposite = <<>>
        /\ Len(matches) = Len(EntryOpposite)
        /\ realized_pnl = AllOfQueuePnl(EntryOpposite)
        /\ Len(Own) = Len(EntryOwn) + 1
        /\ SubSeq(Own, 1, Len(EntryOwn)) = EntryOwn
        /\ Own[Len(Own)].remaining_qty = Abs(qty) - TotalRemaining(EntryOpposite)
        /\ Own[Len(Own)].price = price
        /\ Len(ledger_rows) = Len(df)
        /\ LastRow.Trade_Date = df[Len(df)].trade_date
        /\ LastRow.Realized_PnL_Trade.value = AllOfQueuePnl(EntryOpposite)
        /\ LastRow.Running_Position.value =
               (IF IsBuy THEN 1 ELSE -1)
                   * (TotalRemaining(EntryOwn) + Abs(qty) - TotalRemaining(EntryOpposite))

\* A sell that sweeps two long lots and ends short.
C8_Witness ==
    /\ Processed
    /\ ~IsBuy
    /\ Len(entry_long) >= 2
    /\ Abs(qty) > TotalRemaining(entry_long)
    /\ Len(open_short_lots) = 1
    /\ open_long_lots = <<>>
    /\ LastRow.Realized_PnL_Trade.value # 0

\* C9: the side label of a row is decided by the queues as the trade found
\* them: a buy is "BUY (Cover Short)" iff the short queue was non-empty at
\* entry, else "BUY (Open Long)"; a sell is "SELL (Close Long)" iff the long
\* queue was non-empty at entry, else "SELL (Open Short)".
EntryLabel ==
    IF IsBuy
    THEN IF entry_short # <<>> THEN "BUY (Cover Short)" ELSE "BUY (Open Long)"
    ELSE IF entry_long # <<>> THEN "SELL (Close Long)" ELSE "SELL (Open Short)"

C9_SideLabelAtEntry ==
    /\ Entered => side_label = EntryLabel
    /\ Processed => LastRow.Side = EntryLabel

\* A sell that flips long to short and is labelled Close Long.
C9_Witness ==
    /\ Processed
    /\ ~IsBuy
    /\ entry_long # <<>>
    /\ open_long_lots = <<>>
    /\ open_short_lots # <<>>
    /\ LastRow.Side = "SELL (Close Long)"

\* C10: the unrealized P&L of a row is the mark, at the trade's price, of the
\* lots open after the trade: remaining_qty * (price - unit cost) over the
\* long lots plus remaining_qty * (unit cost - price) over the short lots.
MarkOfOpenLots ==
    SumTo(LAMBDA i : open_long_lots[i].remaining_qty * (price - open_long_lots[i].price),
          Len(open_long_lots))
    + SumTo(LAMBDA i : open_short_lots[i].remaining_qty * (open_short_lots[i].price - price),
            Len(open_short_lots))

C10_UnrealizedPnl ==
    Processed =>
        /\ unrealized_pnl = MarkOfOpenLots
        /\ LastRow.Total_Unrealized_PnL.value = MarkOfOpenLots

C10_Witness ==
    /\ Processed
    /\ Len(open_short_lots) >= 2
    /\ LastRow.Total_Unrealized_PnL.value > 0

\* C11: a trade with quantity zero is rejected: the engine emits no row for it
\* (nor for a later trade) and does not return a ledger.
C11_ZeroQuantityRejected ==
    \A i \in 1..Len(df) :
        df[i].quantity = 0 => (Len(ledger_rows) < i /\ pc # "done")

\* C12: a trade whose price is zero or negative is rejected rather than
\* replayed: no row is emitted for it and no ledger is returned.
C12_NonPositivePriceRejected ==
    \A i \in 1..Len(df) :
        df[i].price <= 0 => (Len(ledger_rows) < i /\ pc # "done")

\* C13: the engine returns a ledger only for a frame that is in ascending date
\* order and has no invalid trade; otherwise nothing is returned, not even
\* the rows of the valid trades that precede the offending one.
DatesAscending == \A i, j \in 1..Len(df) : i < j => df[i].trade_date <= df[j].trade_date

AllTradesValid == \A i \in 1..Len(df) : df[i].quantity # 0 /\ df[i].price > 0

C13_NoLedgerForBadInput ==
    pc = "done" => (DatesAscending /\ AllTradesValid)

\* C14: the ledger holds exactly one row per trade read, in the order of the
\* trades (row k echoes the date, quantity and price of trade k; the row of
\* the trade being processed is appended when its processing ends), and a
\* row once appended is never changed or removed by a later step.
RowPerTrade ==
    /\ Len(ledger_rows) = (IF pc = "match" THEN Len(df) - 1 ELSE Len(df))
    /\ \A k \in 1..Len(ledger_rows) :
          /\ ledger_rows[k].Trade_Date = df[k].trade_date
          /\ ledger_rows[k].Quantity.value = df[k].quantity
          /\ ledger_rows[k].Price.value = df[k].price

RowsKept ==
    /\ Len(ledger_rows') >= Len(ledger_rows)
    /\ \A k \in 1..Len(ledger_rows) : ledger_rows'[k] = ledger_rows[k]

C14_OneRowPerTradeAppendOnly == [][RowPerTrade' /\ RowsKept]_vars

C14_Witness ==
    /\ pc = "done"
    /\ Len(ledger_rows) >= 3
    /\ ledger_rows[1].Quantity.value # ledger_rows[2].Quantity.value
    /\ ledger_rows[2].Price.value # ledger_rows[3].Price.value

\* C16: the cumulative realized P&L of row k is the sum of the per-trade
\* realized P&L of rows 1..k; the accumulator starts at 0 and changes only by
\* the realized P&L of the trade whose row is appended.
RealizedUpTo(k) == SumTo(LAMBDA j : ledger_rows[j].Realized_PnL_Trade.value, k)

C16_CumulativeRealized ==
    /\ \A k \in 1..Len(ledger_rows) :
          ledger_rows[k].Total_Realized_PnL.value = RealizedUpTo(k)
    /\ realized_pnl_total = RealizedUpTo(Len(ledger_rows))

\* Gains and losses on different trades, a row with realized P&L below zero.
C16_Witness ==
    /\ Processed
    /\ Len(ledger_rows) >= 3
    /\ ledger_rows[2].Realized_PnL_Trade.value < 0
    /\ ledger_rows[3].Realized_PnL_Trade.value # 0
    /\ ledger_rows[3].Total_Realized_PnL.value # ledger_rows[3].Realized_PnL_Trade.value

\* C17: when the first trade is a sell, it opens one short lot of -quantity
\* units at the trade's price; running_position is the (negative) quantity,
\* realized P&L is 0 and the row is labelled "SELL (Open Short)".
C17_StartsShort ==
    (Processed /\ Len(df) = 1 /\ df[1].quantity < 0) =>
        /\ Len(open_short_lots) = 1
        /\ open_short_lots[1].remaining_qty = -df[1].quantity
        /\ open_short_lots[1].price = df[1].price
        /\ open_long_lots = <<>>
        /\ running_position = df[1].quantity
        /\ realized_pnl = 0
        /\ Len(ledger_rows) = 1
        /\ ledger_rows[1].Side = "SELL (Open Short)"
        /\ ledger_rows[1].Running_Position.value = df[1].quantity
        /\ ledger_rows[1].Realized_PnL_Trade.value = 0

C17_Witness ==
    /\ pc = "for"
    /\ Len(df) = 1
    /\ df[1].quantity < -1
    /\ Len(open_short_lots) = 1
    /\ ledger_rows[1].Side = "SELL (Open Short)"

\* C18: a closing trade whose price equals the unit cost of every lot it
\* matches has realized P&L exactly 0.
C18_SamePriceRealizesZero ==
    (Entered /\ matches # <<>>
             /\ \A k \in 1..Len(matches) : matches[k].lot.price = price) =>
        /\ realized_pnl = 0
        /\ Processed => LastRow.Realized_PnL_Trade.value = 0

\* A sell at the price of both long lots it sweeps.
C18_Witness ==
    /\ Processed
    /\ ~IsBuy
    /\ Len(matches) >= 2
    /\ \A k \in 1..Len(matches) : matches[k].lot.price = price
    /\ LastRow.Realized_PnL_Trade.value = 0

\* C19 as amended: the step that builds the summary changes nothing of the
\* final state, and the summary reports the final running position, the final
\* cumulative realized P&L, the final unrealized P&L marked at the last
\* trade's price and the numbers of open long and short lots, each equal to
\* the value of the last ledger row or of the final queues; it has no entry
\* for the total P&L.
SummaryMatchesFinalState ==
    /\ DOMAIN summary = {"Final_Position", "Total_Realized_PnL",
                         "Final_Unrealized_PnL", "Open_Long_Lots", "Open_Short_Lots"}
    /\ summary.Final_Position = LastRow.Running_Position
    /\ summary.Total_Realized_PnL = LastRow.Total_Realized_PnL
    /\ summary.Final_Unrealized_PnL = LastRow.Total_Unrealized_PnL
    /\ price = df[Len(df)].price
    /\ summary.Final_Unrealized_PnL.value = MarkOfOpenLots
    /\ summary.Open_Long_Lots = Len(open_long_lots)
    /\ summary.Open_Short_Lots = Len(open_short_lots)

Unmatched == IF IsBuy THEN buy_qty ELSE sell_qty

LotsUsedUp == Cardinality({k \in 1..Len(matches) :
                              matches[k].matched = matches[k].lot.remaining_qty})

C20_MatchingLoopBounded ==
    Entered =>
        /\ Len(matches) <= Len(EntryOpposite)
        /\ Len(Opposite) = Len(EntryOpposite) - LotsUsedUp
        /\ \A k \in 1..Len(matches) :
              /\ matches[k].matched > 0
              /\ \/ matches[k].matched = matches[k].lot.remaining_qty
                 \/ (k = Len(matches) /\ Unmatched = 0)

\* A trade that ran the loop twice: one lot removed, then the trade used up
\* inside the next lot.
C20_Witness ==
    /\ Processed
    /\ Len(EntryOpposite) >= 2
    /\ Len(matches) = 2
    /\ matches[2].matched < matches[2].lot.remaining_qty
    /\ Unmatched = 0
    /\ Len(Opposite) = Len(EntryOpposite) - 1

\* C15 (idempotence of replay): a second invocation on the same trade
\* sequence returns the ledger and the summary the first one returned.
C15_ReplayIdentical ==
    (pc = "done" /\ returned # <<>>) =>
        /\ df = returned[1].df
        /\ ledger_rows = returned[1].ledger
        /\ summary = returned[1].summary

\* The second invocation has returned, after trades that matched and left a
\* lot open.
C15_Witness ==
    /\ pc = "done"
    /\ returned # <<>>
    /\ Len(ledger_rows) >= 2
    /\ matches # <<>>
    /\ summary.Open_Long_Lots + summary.Open_Short_Lots >= 1

\* C21: two invocations interleaved step by step in any order share no
\* mutable state: each returns the ledger and the summary that a run of its
\* own on the same frame returns.
ReturnsAsAlone(f) ==
    f.pc = "done" =>
        /\ f.ledger_rows = LedgerAlone(f.df)
        /\ f.summary = SummaryAlone(f.df)

C21_InterleavedRunsIndependent ==
    other # <<>> =>
        /\ ReturnsAsAlone(Frame)
        /\ ReturnsAsAlone(other[1])

\* Both have returned, each after a match, on different frames, and the one
\* ended long while the other ended short.
C21_Witness ==
    /\ other # <<>>
    /\ pc = "done" /\ other[1].pc = "done"
    /\ df # other[1].df
    /\ matches # <<>> /\ other[1].matches # <<>>
    /\ Len(df) >= 2 /\ Len(other[1].df) >= 2
    /\ other[1].ledger_rows[1].Side = "BUY (Open Long)"
    /\ ledger_rows[1].Side = "SELL (Open Short)"

\* C22: every numeric value of an emitted ledger row and of the summary is a
\* decimal, not a binary floating-point number.
NumericColumns ==
    {"Quantity", "Price", "Trade_Notional", "Gross_Notional", "Running_Position",
     "Avg_Cost_Basis", "Realized_PnL_Trade", "Total_Realized_PnL",
     "Total_Unrealized_PnL"}

C22_EmittedInDecimal ==
    /\ \A k \in 1..Len(ledger_rows) :
          \A c \in NumericColumns : ledger_rows[k][c].type = "decimal"
    /\ pc = "done" =>
          \A c \in {"Final_Position", "Total_Realized_PnL", "Final_Unrealized_PnL"} :
              summary[c].type = "decimal"

\* C23: the price of a lot is the price of the trade that opened it and no
\* step changes it while the lot is in its queue: a lot that stays keeps its
\* price and its remaining_qty does not grow, and a lot that appears is the
\* one the current trade opens, at that trade's price.
LotsKeepPrice(old, new) ==
    \A i \in 1..Len(new) :
        IF \E j \in 1..Len(old) : old[j].opened_by = new[i].opened_by
        THEN \A j \in 1..Len(old) :
                 old[j].opened_by = new[i].opened_by =>
                     /\ new[i].price = old[j].price
                     /\ new[i].remaining_qty <= old[j].remaining_qty
        ELSE /\ new[i].opened_by = Len(df')
             /\ new[i].price = df'[Len(df')].price

C23_LotPriceImmutable ==
    [][/\ LotsKeepPrice(open_long_lots, open_long_lots')
       /\ LotsKeepPrice(open_short_lots, open_short_lots')]_vars

\* A lot partly matched by a later trade at another price, still in its queue
\* at the price of the trade that opened it.
C23_Witness ==
    /\ Processed
    /\ matches # <<>>
    /\ Opposite # <<>>
    /\ Opposite[1].remaining_qty < Abs(df[Opposite[1].opened_by].quantity)
    /\ price # Opposite[1].price
    /\ Opposite[1].price = df[Opposite[1].opened_by].price
    /\ Opposite[1].opened_by < Len(df) - 1

\* C24: after k trades at most k lots are open, long and short together; a
\* trade appends at most one lot, to its own queue, and only when part of its
\* quantity is left unmatched once the opposite queue is exhausted.
C24_LotsBoundedByTrades ==
    /\ Len(open_long_lots) + Len(open_short_lots) <= Len(ledger_rows)
    /\ Processed =>
          /\ Len(Own) <= Len(EntryOwn) + 1
          /\ Len(Opposite) <= Len(EntryOpposite)
          /\ Len(Own) = Len(EntryOwn) + 1 => (Unmatched > 0 /\ Opposite = <<>>)

\* Three trades, and as many lots: the bound is reached.
C24_Witness ==
    /\ pc = "for"
    /\ Len(df) = 3
    /\ Len(open_long_lots) + Len(open_short_lots) = 3
    /\ Len(Own) = Len(EntryOwn) + 1

\* C25 (accounting identity): for every row k, the cumulative realized P&L
\* plus the unrealized P&L of the row equals the sum over the trades i <= k of
\* quantity_i * (price_k - price_i), whichever lots were matched.
MarkedToRow(k) == SumTo(LAMBDA i : df[i].quantity * (df[k].price - df[i].price), k)

C25_AccountingIdentity ==
    \A k \in 1..Len(ledger_rows) :
        ledger_rows[k].Total_Realized_PnL.value
            + ledger_rows[k].Total_Unrealized_PnL.value = MarkedToRow(k)

\* Third row: realized and unrealized both non-zero, after a partial close at
\* a price that differs from the costs.
C25_Witness ==
    /\ Processed
    /\ Len(ledger_rows) = 3
    /\ ledger_rows[3].Total_Realized_PnL.value # 0
    /\ ledger_rows[3].Total_Unrealized_PnL.value # 0
    /\ ledger_rows[2].Total_Unrealized_PnL.value # 0
    /\ matches # <<>>
    /\ Opposite # <<>>

\* C26 (prefix consumption): at every point of a closing trade the opposite
\* queue is the queue the trade found, less a prefix of lots used up whole,
\* with at most its new head reduced, by what the trade matched beyond that
\* prefix; the lots behind the head are as they were, and both queues are
\* always in the order of the trades that opened their lots.
InOpeningOrder(lots) ==
    \A i \in 1..(Len(lots) - 1) : lots[i].opened_by < lots[i + 1].opened_by

PrefixTotal(lots, n) == SumTo(LAMBDA i : lots[i].remaining_qty, n)

\* What the trade has matched so far beyond the first n lots it found.
MatchedBeyond(n) == (Abs(qty) - Unmatched) - PrefixTotal(EntryOpposite, n)

C26_PrefixConsumption ==
    /\ InOpeningOrder(open_long_lots)
    /\ InOpeningOrder(open_short_lots)
    /\ Entered =>
          LET n == LotsUsedUp
          IN  /\ Len(Opposite) = Len(EntryOpposite) - n
              /\ \A k \in 1..Len(matches) : matches[k].lot.opened_by = EntryOpposite[k].opened_by
              /\ \A i \in 2..Len(Opposite) : Opposite[i] = EntryOpposite[n + i]
              /\ IF Opposite = <<>>
                 THEN MatchedBeyond(n) = 0
                 ELSE /\ Opposite[1].remaining_qty <= EntryOpposite[n + 1].remaining_qty
                      /\ Opposite[1] = [EntryOpposite[n + 1] EXCEPT
                                            !.remaining_qty = @ - MatchedBeyond(n)]

\* A closing trade used up the first lot and reduced the next one.
C26_Witness ==
    /\ Processed
    /\ Len(EntryOpposite) = 2
    /\ Len(matches) = 2
    /\ Len(Opposite) = 1
    /\ Opposite[1].opened_by = 2
    /\ Opposite[1].remaining_qty < EntryOpposite[2].remaining_qty
    /\ EntryOpposite[1].price # EntryOpposite[2].price

\* C27: a trade leaves the queue of its own side as it found it, except for
\* at most one lot appended at the tail when its processing ends: a buy never
\* removes or decrements a long lot, a sell never a short lot.
C27_OwnQueueOnlyAppended ==
    /\ pc = "match" => Own = EntryOwn
    /\ Processed =>
          /\ Len(Own) \in {Len(EntryOwn), Len(EntryOwn) + 1}
          /\ SubSeq(Own, 1, Len(EntryOwn)) = EntryOwn

\* A buy on top of two long lots, of another size and price than theirs.
C27_Witness ==
    /\ Processed
    /\ IsBuy
    /\ Len(entry_long) = 2
    /\ Len(open_long_lots) = 3
    /\ open_long_lots[3].remaining_qty # open_long_lots[1].remaining_qty
    /\ open_long_lots[3].price # open_long_lots[2].price
    /\ open_long_lots[3].opened_by = 3

\* C28: the Avg Cost Basis of a row is 0 when the running position is zero or
\* negative; when it is positive it is the sum over the open long lots of
\* remaining_qty * price divided by the running position, the divisor is not
\* zero, and the quotient lies between the lowest and the highest price of
\* the open long lots.
CostOfOpenLongs ==
    SumTo(LAMBDA i : open_long_lots[i].remaining_qty * open_long_lots[i].price,
          Len(open_long_lots))

C28_AvgCostBasis ==
    Processed =>
        LET avg == LastRow.Avg_Cost_Basis.value
        IN  /\ avg.den # 0
            /\ running_position <= 0 => avg.num = 0
            /\ running_position > 0 =>
                  /\ avg.num = CostOfOpenLongs
                  /\ avg.den = running_position
                  /\ \E i \in 1..Len(open_long_lots) :
                        open_long_lots[i].price * avg.den <= avg.num
                  /\ \E i \in 1..Len(open_long_lots) :
                        avg.num <= open_long_lots[i].price * avg.den

\* Long lots at two prices and unequal sizes: an average strictly between the
\* two prices that is not a whole number.
C28_Witness ==
    /\ Processed
    /\ running_position > 0
    /\ Len(open_long_lots) >= 2
    /\ LastRow.Avg_Cost_Basis.value.num % LastRow.Avg_Cost_Basis.value.den # 0
    /\ LastRow.Avg_Cost_Basis.value.num = CostOfOpenLongs

\* C29: the page never calls build_fifo_ledger on an empty frame: for an
\* empty frame it shows the warning and leaves the engine alone, the call
\* starts only on a frame with at least one row, and so the summary was built
\* after at least one processed trade and never raises on an unbound name.
C29_NeverBuildsOnEmptyFrame ==
    [][/\ pc' # "UnboundLocalError"
       /\ (script = "loaded" /\ frame_rows = 0) =>
              /\ script' = "end"
              /\ "No trades found" \in rendered'
              /\ "Trade Ledger" \notin rendered'
              /\ UNCHANGED engine_vars
       /\ (pc = "idle" /\ pc' # "idle") => (pc' = "for" /\ frame_rows >= 1)
       /\ (pc # "done" /\ pc' = "done") =>
              (Len(ledger_rows') >= 1 /\ Len(ledger_rows') = frame_rows)]_vars

\* The warning is on the page, for a frame without rows.
C29_Witness ==
    /\ script = "end"
    /\ frame_rows = 0
    /\ "No trades found" \in rendered
    /\ pc = "idle"
    /\ Authenticated

\* C30 (password gate): the page body (ticker query, trade load, ledger
\* computation) is reached only while the session's authenticated flag is
\* True; the flag becomes True only by the login callback, run for a click on
\* the rendered Login button with the typed password equal to the secret; and
\* once True it stays True, the login inputs being no longer rendered.
C30_PasswordGate ==
    [][/\ script' \in {"body", "loaded", "ledger", "end"} => Authenticated'
       /\ pc' # "idle" => Authenticated'
       /\ (Authenticated' /\ ~Authenticated) =>
              /\ script = "stopped"
              /\ "Login" \in rendered
              /\ session_state["password"] = Secret
              /\ script' = "run"
       /\ Authenticated => Authenticated'
       /\ (Authenticated' /\ script' # "run") => "Login" \notin rendered']_vars

\* The ledger is on the page of a session that logged in.
C30_Witness ==
    /\ Authenticated
    /\ session_state["password"] = Secret
    /\ script = "end"
    /\ "Trade Ledger" \in rendered
    /\ "Login" \notin rendered
    /\ pc = "done"
    /\ Len(ledger_rows) >= 2

====
